---- MODULE Spec2Model ----
(***************************************************************************)
(* A model of the recommendation-algorithm feeder: the orchestrator        *)
(* (AlgorithmFeeder.feedingLoop with its active-search fallback), the      *)
(* three playback back ends it feeds (the single-thread videoQueue,        *)
(* ConcurrentPlayer and SimulatedPlaybackManager), the history store, the  *)
(* keyword matcher and the Bilibili playback simulator.                    *)
(*                                                                         *)
(* The program runs on one JavaScript event loop, so an action of the      *)
(* model is the code that runs between two suspension points (await):      *)
(* the continuation of a resolved promise or of an expired timer.          *)
(* File-system calls of the history store are taken to succeed.            *)
(***************************************************************************)
EXTENDS Integers, Sequences, FiniteSets, TLC

(***************************************************************************)
(* Bounds of the model.                                                    *)
(***************************************************************************)
NumVideos == 2
MaxFetch == 2
MaxPlayers == 2
MaxCapacity == 1
MaxPerCycle == 2
MaxThreshold == 2
MaxTasks == 2
MaxMissed == 3
MaxLines == 3
MaxClock == 2
RandomSteps == 4
MaxTitle == 2
MaxKeywords == 2
MaxSimWork == 3

(***************************************************************************)
(* Program constants.                                                      *)
(***************************************************************************)
DefaultMaxQueueSize == 20
DefaultMaxVideosPerQueue == 5
DefaultActiveSearchThreshold == 10
MinRecordedFailureMs == 1000
StopMaxWaitMs == 30000
StopPollMs == 1000
MaxConcurrentWorkers == 10
MinPlaybackSpeed == 1
MaxPlaybackSpeed == 5
MaxDurationVariation == 50
DefaultVideoDuration == 3600
MinSimulatedDuration == 5
MinHeartbeatInterval == 5
HeartbeatSeconds == 15

VARIABLES
  config,        \* AppConfig, fixed at construction
  isRunning,     \* AlgorithmFeeder.isRunning
  missedRounds,  \* AlgorithmFeeder.missedRounds
  videoQueue,    \* AlgorithmFeeder.videoQueue (single-thread mode)
  fpc,           \* where feedingLoop is suspended
  curVideo,      \* the video playTargetVideo is playing, 0 when none
  historyFile,   \* history/watch-history.jsonl, one entry per line
  now,           \* the clock new Date() reads
  cycle,         \* what the current discovery cycle has done so far
  lastStart,     \* the latest playback/telemetry session started
  taskQueue,     \* ConcurrentPlayer.taskQueue
  players,       \* ConcurrentPlayer.players: the PlayerInstance objects
  cpRunning,     \* ConcurrentPlayer.isRunning
  cpStop,        \* where ConcurrentPlayer.stop is suspended
  simQueue,      \* SimulatedPlaybackManager.videoQueue
  isProcessing,  \* SimulatedPlaybackManager.isProcessing
  activeWorkers, \* SimulatedPlaybackManager.activeWorkers
  simulators,    \* SimulatedPlaybackManager.simulators.length
  inFlight,      \* the processVideoWithSource calls awaiting their simulator
  loops,         \* the startProcessing calls and where each is suspended
  histOp,        \* the latest direct call on HistoryService and what it saw
  playback,      \* one BilibiliPlaybackSimulator.simulatePlayback invocation
  matchRun,      \* one MatchService.checkVideoMatch invocation
  statsFile,     \* the statistics document HistoryService.updateStats rewrites
  searchRun      \* AlgorithmFeeder.keywordIndex and the keywords its searches used

feederVars == <<isRunning, missedRounds, videoQueue, fpc, curVideo, cycle>>
cpVars == <<taskQueue, players, cpRunning, cpStop>>
simVars == <<simQueue, isProcessing, activeWorkers, simulators, inFlight, loops>>
libVars == <<now, histOp, playback, matchRun, statsFile, searchRun>>
feedVars == <<config, feederVars, lastStart, cpVars, simVars>>
vars == <<config, feederVars, historyFile, libVars, lastStart, cpVars, simVars>>

Videos == 1..NumVideos
Sources == {"home", "search"}

Min(a, b) == IF a < b THEN a ELSE b
Max(a, b) == IF a > b THEN a ELSE b

(***************************************************************************)
(* History store.  A line of the JSONL file is the record JSON.parse       *)
(* yields for it, or a line that does not parse (ok = FALSE).              *)
(***************************************************************************)
HistoryLine(video, source, day) ==
  [ok |-> TRUE, id |-> video, source |-> source, day |-> day]

\* HistoryService.hasWatched: scan the lines, skip those that do not parse
hasWatched(file, videoId) ==
  \E i \in 1..Len(file) : file[i].ok /\ file[i].id = videoId

recordWatchSkips(file, video, source, day) == file

\* HistoryService.recordWatch: append one line to the file
recordWatch(file, video, source, day) ==
  Append(file, HistoryLine(video, source, day))

\* the keywords a record's matchedKeywords are drawn from
StatKeywords == {<<"a">>, <<"b", "b">>}

(***************************************************************************)
(* Configuration (AppConfig).  A VideoInfo is its id; a candidate the      *)
(* platform returns carries what matcher.match answers for it.             *)
(***************************************************************************)
Candidate == [id : Videos, match : BOOLEAN]
FetchResults == UNION {[1..n -> Candidate] : n \in 0..MaxFetch}

Configs ==
  {c \in [useSimulatedPlayback : BOOLEAN, concurrentPlayers : 1..MaxPlayers,
          maxQueueSize : 1..MaxCapacity, maxVideosPerQueue : 1..MaxPerCycle,
          activeSearchThreshold : 1..MaxThreshold,
          enableActiveSearch : BOOLEAN] :
     /\ ~c.enableActiveSearch => c.activeSearchThreshold = 1
     /\ ~c.useSimulatedPlayback => c.concurrentPlayers <= 2}

\* AlgorithmFeeder.start: which back end plays the admitted videos
Mode ==
  IF config.useSimulatedPlayback THEN "simulated"
  ELSE IF config.concurrentPlayers > 1 THEN "concurrent" ELSE "single"

\* this.config.maxQueueSize || 20
maxQueueSize ==
  IF config.maxQueueSize = 0 THEN DefaultMaxQueueSize ELSE config.maxQueueSize

\* this.config.maxVideosPerQueue || 5
maxVideosPerQueue ==
  IF config.maxVideosPerQueue = 0 THEN DefaultMaxVideosPerQueue
  ELSE config.maxVideosPerQueue

\* this.config.activeSearchThreshold || 10
threshold ==
  IF config.activeSearchThreshold = 0 THEN DefaultActiveSearchThreshold
  ELSE config.activeSearchThreshold

Ids(cands) == [i \in 1..Len(cands) |-> cands[i].id]
IsMatch(c) == c.match
Range(s) == {s[i] : i \in 1..Len(s)}

\* Array.prototype.slice(0, n)
Slice(s, n) == SubSeq(s, 1, Min(n, Len(s)))

\* videos.filter(video => this.matcher.match(video))
targetVideosOf(videos) == Ids(SelectSeq(videos, IsMatch))

videosToAddTakesAll(targets) == targets

\* targetVideos.slice(0, maxVideosPerQueue)
videosToAdd(targets) == Slice(targets, maxVideosPerQueue)

(***************************************************************************)
(* Admission to the three back ends.                                       *)
(***************************************************************************)
\* feedingLoop, single-thread branch: videosToAdd.forEach(... push ...)
pushUnwatched(queue, file, videos) ==
  LET Unwatched(v) == ~hasWatched(file, v) IN queue \o SelectSeq(videos, Unwatched)

\* ConcurrentPlayer.addToQueue: one pending PlayTask per video (trail: the
\* statuses the task has had; claims: how often getNextTask has returned it)
cpAddToQueue(queue, videos, source) ==
  queue \o [i \in 1..Len(videos) |->
              [video |-> videos[i], status |-> "pending", source |-> source,
               playerId |-> 0, trail |-> <<"pending">>, claims |-> 0]]

\* SimulatedPlaybackManager.addToQueue: the videos that pass the filter
newVideosOf(queue, file, videos) ==
  LET Fresh(v) == /\ ~hasWatched(file, v)
                  /\ ~\E i \in 1..Len(queue) : queue[i].video = v
  IN SelectSeq(videos, Fresh)

\* SimulatedPlaybackManager.addToQueue: the queue after the push
simAddToQueue(queue, file, videos, source) ==
  LET new == newVideosOf(queue, file, videos) IN
  queue \o [i \in 1..Len(new) |-> [video |-> new[i], source |-> source]]

\* SimulatedPlaybackManager.addToQueue: setImmediate(startProcessing)
simSchedule(queue, file, videos) ==
  IF newVideosOf(queue, file, videos) # <<>> /\ ~isProcessing
  THEN [loops EXCEPT !.scheduled = @ + 1] ELSE loops

(***************************************************************************)
(* What is still to be played or has been recorded: the guards of the      *)
(* admitting actions keep it within MaxTasks.                              *)
(***************************************************************************)
Work ==
  Len(historyFile) + Len(videoQueue) + (IF curVideo = 0 THEN 0 ELSE 1)
  + Cardinality({i \in 1..Len(taskQueue) : taskQueue[i].status \in {"pending", "playing"}})
  + Len(simQueue) + Len(inFlight)

Room(k) == Work + k <= MaxTasks /\ Len(taskQueue) + k <= MaxTasks

(***************************************************************************)
(* AlgorithmFeeder.feedingLoop.                                            *)
(***************************************************************************)
NewCycle ==
  [phase |-> "running", skipped |-> FALSE, failed |-> FALSE,
   matches |-> <<>>, admitted |-> <<>>, preWatched |-> {}, preQueued |-> {},
   search |-> "none", mAtSearch |-> 0, apiFailed |-> FALSE]

\* the outcome of an awaited playVideo: resolved or rejected, and the time it took
PlayOutcomes == [ok : BOOLEAN, elapsed : {MinRecordedFailureMs, MinRecordedFailureMs + 1}]

\* "if (this.isRunning) await this.delay(...)", then the while test
EndOfCycle == IF isRunning THEN "sleeping" ELSE "exited"

Ended(cyc) == [cyc EXCEPT !.phase = "ended"]

Started(video, via) ==
  [video |-> video, recorded |-> hasWatched(historyFile, video), via |-> via]

RECURSIVE SkipWatched(_, _)
\* processVideoQueue: shift and skip the videos already watched
SkipWatched(queue, file) ==
  IF queue # <<>> /\ hasWatched(file, Head(queue))
  THEN SkipWatched(Tail(queue), file) ELSE queue

\* AlgorithmFeeder.processVideoQueue, up to the next await
ProcessVideoQueue(queue, cyc) ==
  LET rest == IF isRunning THEN SkipWatched(queue, historyFile) ELSE queue IN
  IF isRunning /\ rest # <<>>
  THEN /\ videoQueue' = Tail(rest)
       /\ curVideo' = Head(rest)
       /\ fpc' = "playing"
       /\ lastStart' = Started(Head(rest), "queue")
       /\ cycle' = cyc
  ELSE /\ videoQueue' = rest
       /\ curVideo' = 0
       /\ fpc' = EndOfCycle
       /\ cycle' = Ended(cyc)
       /\ UNCHANGED lastStart

\* feedingLoop, the branch that found target videos
AdmitTargets(targets) ==
  LET toAdd == videosToAdd(targets)
      cyc == [cycle EXCEPT !.matches = targets,
                           !.preWatched = {v \in Range(toAdd) : hasWatched(historyFile, v)}]
  IN
  /\ Room(Len(toAdd))
  /\ missedRounds' = 0
  /\ CASE Mode = "simulated" ->
            /\ simQueue' = simAddToQueue(simQueue, historyFile, toAdd, "home")
            /\ loops' = simSchedule(simQueue, historyFile, toAdd)
            /\ cycle' = Ended([cyc EXCEPT
                 !.admitted = newVideosOf(simQueue, historyFile, toAdd),
                 !.preQueued = {v \in Range(toAdd) :
                                  \E i \in 1..Len(simQueue) : simQueue[i].video = v}])
            /\ fpc' = EndOfCycle
            /\ UNCHANGED <<videoQueue, curVideo, lastStart, taskQueue>>
       [] Mode = "concurrent" ->
            /\ taskQueue' = cpAddToQueue(taskQueue, toAdd, "home")
            /\ cycle' = Ended([cyc EXCEPT !.admitted = toAdd])
            /\ fpc' = EndOfCycle
            /\ UNCHANGED <<videoQueue, curVideo, lastStart, simQueue, loops>>
       [] OTHER ->
            /\ ProcessVideoQueue(pushUnwatched(videoQueue, historyFile, toAdd),
                 [cyc EXCEPT !.admitted =
                    SubSeq(pushUnwatched(videoQueue, historyFile, toAdd),
                           Len(videoQueue) + 1,
                           Len(pushUnwatched(videoQueue, historyFile, toAdd)))])
            /\ UNCHANGED <<taskQueue, simQueue, loops>>

halveKeeps(m) == m

\* Math.floor(this.missedRounds / 2)
halve(m) == m \div 2

\* checkActiveSearch, after performActiveSearch returned false
SearchFailed ==
  /\ missedRounds' = halve(cycle.mAtSearch)
  /\ cycle' = Ended([cycle EXCEPT !.search = "failed"])
  /\ fpc' = EndOfCycle

thresholdReachedLate(m) == m > threshold

\* checkActiveSearch: this.missedRounds >= threshold
thresholdReached(m) == m >= threshold

\* feedingLoop, the branch that found no target video: checkActiveSearch
\* (canSearch: platform.searchVideos exists and selectSearchKeyword finds a keyword)
NoTargets(cyc, canSearch) ==
  LET m == missedRounds + 1 IN
  /\ missedRounds < MaxMissed
  /\ IF config.enableActiveSearch /\ thresholdReached(m)
     THEN IF canSearch
          THEN /\ missedRounds' = m
               /\ cycle' = [cyc EXCEPT !.search = "running", !.mAtSearch = m]
               /\ fpc' = "searching"
          ELSE /\ missedRounds' = halve(m)
               /\ cycle' = Ended([cyc EXCEPT !.search = "failed", !.mAtSearch = m])
               /\ fpc' = EndOfCycle
     ELSE /\ missedRounds' = m
          /\ cycle' = Ended(cyc)
          /\ fpc' = EndOfCycle
  /\ UNCHANGED <<videoQueue, curVideo, lastStart, taskQueue, simQueue, loops>>

\* getRecommendedVideos resolved with `videos` (apiFailed: with the [] its catch
\* returns): feedingLoop up to its next await
RecommendReturn(videos, canSearch, apiFailed) ==
  /\ fpc = "fetching"
  /\ IF Len(videoQueue) >= maxQueueSize
     THEN /\ fpc' = EndOfCycle
          /\ cycle' = Ended([cycle EXCEPT !.skipped = TRUE, !.apiFailed = apiFailed])
          /\ UNCHANGED <<missedRounds, videoQueue, curVideo, lastStart, taskQueue,
                         simQueue, loops>>
     ELSE IF targetVideosOf(videos) # <<>>
          THEN AdmitTargets(targetVideosOf(videos))
          ELSE NoTargets([cycle EXCEPT !.apiFailed = apiFailed], canSearch)
  /\ UNCHANGED <<config, isRunning, historyFile, libVars, players,
                 cpRunning, cpStop, isProcessing, activeWorkers, simulators, inFlight>>

\* BilibiliPlatform.getRecommendedVideos: the call on the platform API rejects,
\* the catch logs it and returns []
DiscoveryFails(canSearch) == RecommendReturn(<<>>, canSearch, TRUE)

RecommendThrowsExits ==
  /\ fpc = "fetching"
  /\ fpc' = "exited"
  /\ cycle' = Ended([cycle EXCEPT !.failed = TRUE])
  /\ UNCHANGED <<config, isRunning, missedRounds, videoQueue, curVideo, historyFile,
                 libVars, lastStart, cpVars, simVars>>

\* getRecommendedVideos rejected (or matcher.match threw on its result, before
\* anything was admitted): the catch of feedingLoop
RecommendThrows ==
  /\ fpc = "fetching"
  /\ fpc' = IF isRunning THEN "backoff" ELSE "exited"
  /\ cycle' = Ended([cycle EXCEPT !.failed = TRUE])
  /\ UNCHANGED <<config, isRunning, missedRounds, videoQueue, curVideo, historyFile,
                 libVars, lastStart, cpVars, simVars>>

\* the normal or the 60 s delay expired: the while test and the next cycle
WakeUp ==
  /\ fpc \in {"sleeping", "backoff"}
  /\ loops.scheduled = 0
  /\ IF isRunning
     THEN fpc' = "fetching" /\ cycle' = NewCycle
     ELSE fpc' = "exited" /\ UNCHANGED cycle
  /\ UNCHANGED <<config, isRunning, missedRounds, videoQueue, curVideo, historyFile,
                 libVars, lastStart, cpVars, simVars>>

(***************************************************************************)
(* AlgorithmFeeder.performActiveSearch and playTargetVideo.                *)
(***************************************************************************)
\* checkActiveSearch, after performActiveSearch returned true
SearchSucceeded ==
  /\ missedRounds' = 0
  /\ cycle' = Ended([cycle EXCEPT !.search = "ok"])
  /\ fpc' = EndOfCycle

searchPicksFirstOnly(results) ==
  IF targetVideosOf(results) = <<>> THEN <<results[1].id>>
  ELSE <<targetVideosOf(results)[1]>>

\* performActiveSearch: the videos handed over for a non-empty result list
searchPicks(results) ==
  IF targetVideosOf(results) = <<>> THEN <<results[1].id>>
  ELSE IF Mode = "single" THEN <<targetVideosOf(results)[1]>>
  ELSE targetVideosOf(results)

\* searchVideos resolved with `results`
SearchReturn(results) ==
  /\ fpc = "searching"
  /\ IF results = <<>>
     THEN /\ SearchFailed
          /\ UNCHANGED <<videoQueue, curVideo, lastStart, taskQueue, simQueue, loops>>
     ELSE /\ Room(Len(searchPicks(results)))
          /\ CASE Mode = "simulated" ->
                    /\ simQueue' = simAddToQueue(simQueue, historyFile,
                                                 searchPicks(results), "search")
                    /\ loops' = simSchedule(simQueue, historyFile, searchPicks(results))
                    /\ SearchSucceeded
                    /\ UNCHANGED <<videoQueue, curVideo, lastStart, taskQueue>>
               [] Mode = "concurrent" ->
                    /\ taskQueue' = cpAddToQueue(taskQueue, searchPicks(results), "search")
                    /\ SearchSucceeded
                    /\ UNCHANGED <<videoQueue, curVideo, lastStart, simQueue, loops>>
               [] OTHER ->
                    /\ curVideo' = searchPicks(results)[1]
                    /\ lastStart' = Started(searchPicks(results)[1], "search")
                    /\ fpc' = "searchPlaying"
                    /\ UNCHANGED <<missedRounds, cycle, videoQueue, taskQueue,
                                   simQueue, loops>>
  /\ UNCHANGED <<config, isRunning, historyFile, libVars, players,
                 cpRunning, cpStop, isProcessing, activeWorkers, simulators, inFlight>>

\* searchVideos rejected: the catch of performActiveSearch returns false
SearchThrows ==
  /\ fpc = "searching"
  /\ SearchFailed
  /\ UNCHANGED <<config, isRunning, videoQueue, curVideo, historyFile, libVars,
                 lastStart, cpVars, simVars>>

\* playTargetVideo / executeTask: is the run written to the history?
recordsRun(outcome) == outcome.ok \/ outcome.elapsed > MinRecordedFailureMs

\* playTargetVideo(video) of processVideoQueue finished; delay(actionDelay) follows
PlayDone(outcome) ==
  /\ fpc = "playing"
  /\ historyFile' = IF recordsRun(outcome)
                    THEN recordWatch(historyFile, curVideo, "home", now)
                    ELSE historyFile
  /\ curVideo' = 0
  /\ fpc' = "actionDelay"
  /\ UNCHANGED <<config, isRunning, missedRounds, videoQueue, cycle, libVars, lastStart,
                 cpVars, simVars>>

\* delay(actionDelay) expired: processVideoQueue goes on
ActionDelayDone ==
  /\ fpc = "actionDelay"
  /\ ProcessVideoQueue(videoQueue, cycle)
  /\ UNCHANGED <<config, isRunning, missedRounds, historyFile, libVars, cpVars, simVars>>

\* playTargetVideo(video, keyword, 'search') finished: performActiveSearch returns true
SearchPlayDone(outcome) ==
  /\ fpc = "searchPlaying"
  /\ historyFile' = IF recordsRun(outcome)
                    THEN recordWatch(historyFile, curVideo, "search", now)
                    ELSE historyFile
  /\ curVideo' = 0
  /\ SearchSucceeded
  /\ UNCHANGED <<config, isRunning, videoQueue, libVars, lastStart, cpVars, simVars>>

(***************************************************************************)
(* ConcurrentPlayer: playerWorker, getNextTask, executeTask, stop.         *)
(***************************************************************************)
CpPlayers == DOMAIN players

\* task.status = st
setStatus(task, st) == [task EXCEPT !.status = st, !.trail = Append(@, st)]

\* this.taskQueue.find(t => t.status === 'pending'), as an index (0: none)
nextTaskOf(queue) ==
  LET pend == {i \in 1..Len(queue) : queue[i].status = "pending"} IN
  IF pend = {} THEN 0 ELSE CHOOSE i \in pend : \A j \in pend : i <= j

getNextTaskLeavesPending(queue) ==
  [queue EXCEPT ![nextTaskOf(queue)].claims = @ + 1]

\* ConcurrentPlayer.getNextTask: the queue once the task found is marked
getNextTask(queue) ==
  [queue EXCEPT ![nextTaskOf(queue)] = [setStatus(@, "playing") EXCEPT !.claims = @ + 1]]

ClaimLoopPlaysWatched(queue, file) ==
  LET i == nextTaskOf(queue) IN
  IF i = 0 THEN [queue |-> queue, task |-> 0]
  ELSE [queue |-> getNextTask(queue), task |-> i]

RECURSIVE ClaimLoop(_, _)
\* playerWorker: claim tasks until one has to be played or none is pending
ClaimLoop(queue, file) ==
  LET i == nextTaskOf(queue) IN
  IF i = 0 THEN [queue |-> queue, task |-> 0]
  ELSE IF hasWatched(file, queue[i].video)
       THEN ClaimLoop([getNextTask(queue) EXCEPT ![i] = setStatus(@, "completed")], file)
       ELSE [queue |-> getNextTask(queue), task |-> i]

WorkerContinueEnds(p, queue, file, pl) ==
  /\ taskQueue' = queue
  /\ players' = [pl EXCEPT ![p].pc = "ended"]
  /\ UNCHANGED lastStart

\* playerWorker from its while test to the next await; executeTask up to playVideo
WorkerContinue(p, queue, file, pl) ==
  IF ~cpRunning
  THEN /\ taskQueue' = queue
       /\ players' = [pl EXCEPT ![p].pc = "ended"]
       /\ UNCHANGED lastStart
  ELSE LET r == ClaimLoop(queue, file) IN
       /\ IF r.task = 0
          THEN /\ taskQueue' = r.queue
               /\ players' = [pl EXCEPT ![p].pc = "polling"]
               /\ UNCHANGED lastStart
          ELSE /\ taskQueue' = [r.queue EXCEPT ![r.task].playerId = p]
               /\ players' = [pl EXCEPT ![p] = [pc |-> "playing", isActive |-> TRUE,
                                                currentTask |-> r.task]]
               /\ lastStart' = [video |-> r.queue[r.task].video,
                                recorded |-> hasWatched(file, r.queue[r.task].video),
                                via |-> "task"]

\* delay(1000) of an idle playerWorker expired
WorkerWake(p) ==
  /\ players[p].pc = "polling"
  /\ WorkerContinue(p, taskQueue, historyFile, players)
  /\ UNCHANGED <<config, feederVars, historyFile, libVars, cpRunning, cpStop, simVars>>

finishedStatusRetries(outcome) == IF outcome.ok THEN "completed" ELSE "pending"

\* executeTask: the status the task ends with
finishedStatus(outcome) == IF outcome.ok THEN "completed" ELSE "failed"

\* executeTask: playVideo and delay(playDuration) finished, or playVideo rejected
WorkerPlayDone(p, outcome) ==
  /\ players[p].pc = "playing"
  /\ LET i == players[p].currentTask
         file == IF recordsRun(outcome)
                 THEN recordWatch(historyFile, taskQueue[i].video, taskQueue[i].source, now)
                 ELSE historyFile
     IN /\ historyFile' = file
        /\ WorkerContinue(p,
             [taskQueue EXCEPT ![i] = setStatus(@, finishedStatus(outcome))], file,
             [players EXCEPT ![p].isActive = FALSE, ![p].currentTask = 0])
  /\ UNCHANGED <<config, feederVars, libVars, cpRunning, cpStop, simVars>>

SomeActive == \E p \in CpPlayers : players[p].isActive

\* ConcurrentPlayer.stop, its waiting loop.  Once isRunning is false no worker
\* claims a task, so a player that is idle at one poll is idle at all later
\* ones: the loop ends at the first poll that finds every player idle ...
CpStopAllIdle ==
  /\ cpStop.pc = "waiting"
  /\ ~SomeActive
  /\ cpStop' = [cpStop EXCEPT !.pc = "cleaning"]
  /\ UNCHANGED <<config, feederVars, historyFile, libVars, lastStart, taskQueue,
                 players, cpRunning, simVars>>

\* ... or after StopMaxWaitMs / StopPollMs polls that all found a player active
CpStopTimeout ==
  /\ cpStop.pc = "waiting"
  /\ SomeActive
  /\ cpStop' = [pc |-> "cleaning",
                waitTime |-> (StopMaxWaitMs \div StopPollMs) * StopPollMs]
  /\ UNCHANGED <<config, feederVars, historyFile, libVars, lastStart, taskQueue,
                 players, cpRunning, simVars>>

\* ConcurrentPlayer.stop: every platform cleaned up, this.players = []
CpStopCleanup ==
  /\ cpStop.pc = "cleaning"
  /\ cpStop' = [cpStop EXCEPT !.pc = "stopped"]
  /\ UNCHANGED <<config, feederVars, historyFile, libVars, lastStart, taskQueue,
                 players, cpRunning, simVars>>

\* this.players as getStatus reads it: stop ends with this.players = [],
\* while the workers keep the PlayerInstance objects they were started with
listedPlayers == IF cpStop.pc = "stopped" THEN {} ELSE CpPlayers

(***************************************************************************)
(* SimulatedPlaybackManager: startProcessing, processVideoAsync, cleanup.  *)
(***************************************************************************)
\* Math.max(1, Math.min(config.concurrentWorkers || 1, 10))
concurrentWorkers == Max(1, Min(config.concurrentPlayers, MaxConcurrentWorkers))

workersBusyOffByOne(active) == active > concurrentWorkers

\* processingLoop: this.activeWorkers >= this.concurrentWorkers
workersBusy(active) == active >= concurrentWorkers

RECURSIVE DispatchAll(_, _, _)
\* processingLoop: shift and processVideoAsync until the queue is empty or all
\* workers are busy (workerId = activeWorkers % concurrentWorkers, activeWorkers++)
DispatchAll(queue, active, flight) ==
  IF queue = <<>> \/ workersBusy(active)
  THEN [queue |-> queue, active |-> active, flight |-> flight]
  ELSE DispatchAll(Tail(queue), active + 1,
                   Append(flight, [video |-> Head(queue).video,
                                   source |-> Head(queue).source,
                                   workerId |-> active % concurrentWorkers]))

\* startProcessing: its finally block
SimFinally(ls) ==
  /\ isProcessing' = FALSE
  /\ activeWorkers' = 0
  /\ loops' = ls
  /\ UNCHANGED <<simQueue, inFlight, lastStart>>

\* startProcessing after processingLoop returned: wait until no worker is active
SimDrain(ls, processing) ==
  IF activeWorkers > 0
  THEN /\ loops' = [ls EXCEPT !.draining = @ + 1]
       /\ isProcessing' = processing
       /\ UNCHANGED <<activeWorkers, simQueue, inFlight, lastStart>>
  ELSE SimFinally(ls)

\* processingLoop from its while test to the next sleep
ProcessingLoop(ls, processing) ==
  IF processing
  THEN LET r == DispatchAll(simQueue, activeWorkers, inFlight)
           new == SubSeq(r.flight, Len(inFlight) + 1, Len(r.flight))
       IN /\ simQueue' = r.queue
          /\ activeWorkers' = r.active
          /\ inFlight' = r.flight
          /\ isProcessing' = processing
          /\ loops' = [ls EXCEPT !.looping = @ + 1]
          /\ lastStart' = IF new = <<>> THEN lastStart
                          ELSE [video |-> new[Len(new)].video,
                                recorded |-> \E k \in 1..Len(new) :
                                               hasWatched(historyFile, new[k].video),
                                via |-> "sim"]
  ELSE SimDrain(ls, processing)

\* the setImmediate callback of addToQueue: startProcessing
SimStart ==
  /\ loops.scheduled > 0
  /\ IF isProcessing \/ simulators = 0
     THEN /\ loops' = [loops EXCEPT !.scheduled = @ - 1]
          /\ UNCHANGED <<simQueue, isProcessing, activeWorkers, inFlight, lastStart>>
     ELSE ProcessingLoop([loops EXCEPT !.scheduled = @ - 1], TRUE)
  /\ UNCHANGED <<config, feederVars, historyFile, libVars, cpVars, simulators>>

\* sleep(100) or sleep(200) of processingLoop expired
SimLoopWake ==
  /\ loops.looping > 0
  /\ ProcessingLoop([loops EXCEPT !.looping = @ - 1], isProcessing)
  /\ UNCHANGED <<config, feederVars, historyFile, libVars, cpVars, simulators>>

\* sleep(100) of the wait for the workers expired
SimDrainWake ==
  /\ loops.draining > 0
  /\ SimDrain([loops EXCEPT !.draining = @ - 1], isProcessing)
  /\ UNCHANGED <<config, feederVars, historyFile, libVars, cpVars, simulators>>

RemoveAt(s, k) == SubSeq(s, 1, k - 1) \o SubSeq(s, k + 1, Len(s))

\* processVideoWithSource after simulatePlayback returned (outcome.ok: a watch
\* time; otherwise the 0 of its catch), and the finally of processVideoAsync:
\* the run is recorded whatever the simulator returned
SimWorkerDone(k, outcome) ==
  /\ k \in 1..Len(inFlight)
  /\ historyFile' = recordWatch(historyFile, inFlight[k].video, inFlight[k].source, now)
  /\ activeWorkers' = activeWorkers - 1
  /\ inFlight' = RemoveAt(inFlight, k)
  /\ UNCHANGED <<config, feederVars, libVars, lastStart, cpVars, simQueue, isProcessing,
                 simulators, loops>>

(***************************************************************************)
(* AlgorithmFeeder.stop, called by the signal handlers.                    *)
(***************************************************************************)
Stop ==
  /\ isRunning
  /\ isRunning' = FALSE
  /\ IF Mode = "simulated"
     THEN isProcessing' = FALSE /\ simulators' = 0 /\ simQueue' = <<>>
     ELSE UNCHANGED <<isProcessing, simulators, simQueue>>
  /\ IF Mode = "concurrent"
     THEN /\ cpRunning' = FALSE
          /\ cpStop' = [pc |-> IF SomeActive THEN "waiting" ELSE "cleaning",
                        waitTime |-> 0]
     ELSE UNCHANGED <<cpRunning, cpStop>>
  /\ UNCHANGED <<config, missedRounds, videoQueue, fpc, curVideo, cycle, historyFile,
                 libVars, lastStart, taskQueue, players, activeWorkers,
                 inFlight, loops>>

(***************************************************************************)
(* The feeder with its back end.                                           *)
(***************************************************************************)
NoCall == [op |-> "none", id |-> 0, before |-> FALSE, result |-> FALSE]
NoBeat == [kind |-> "none", played |-> 0, sent |-> FALSE]
NoPlayback ==
  [pc |-> "idle", playbackSpeed |-> 1, durationVariation |-> 0,
   simulatedDuration |-> 0, source |-> "home", duration |-> 0, target |-> 0,
   step |-> 0, stage |-> "top", current |-> 0, beat |-> NoBeat,
   reports |-> 0, failed |-> FALSE, ok |-> FALSE, result |-> 0]
NoMatchRun ==
  [pc |-> "idle", title |-> <<>>, author |-> <<>>, keywords |-> <<>>,
   matchMode |-> "any", caseSensitive |-> FALSE, result |-> <<>>,
   tags |-> <<>>, matched |-> FALSE]

\* AlgorithmFeeder as constructed: keywordIndex = 0, no search made
NoSearchRun ==
  [keywords |-> <<>>, strategy |-> "random", keywordIndex |-> 0, used |-> <<>>]

\* no statistics document yet: getStats returns its defaultStats
NoStats ==
  [totalVideos |-> 0, sourceStats |-> [s \in Sources |-> 0],
   keywordStats |-> [k \in StatKeywords |-> 0]]

\* The feeder and its back end as constructed from configuration c.
Constructed(c) ==
  /\ config = c
  /\ isRunning = TRUE
  /\ missedRounds = 0
  /\ videoQueue = <<>>
  /\ fpc = "fetching"
  /\ curVideo = 0
  /\ cycle = NewCycle
  /\ lastStart = [video |-> 0, recorded |-> FALSE, via |-> "none"]
  /\ taskQueue = <<>>
  /\ players = [p \in IF Mode = "concurrent" THEN 1..config.concurrentPlayers ELSE {}
                  |-> [pc |-> "polling", isActive |-> FALSE, currentTask |-> 0]]
  /\ cpRunning = (Mode = "concurrent")
  /\ cpStop = [pc |-> "idle", waitTime |-> 0]
  /\ simQueue = <<>>
  /\ isProcessing = FALSE
  /\ activeWorkers = 0
  /\ simulators = IF Mode = "simulated" THEN concurrentWorkers ELSE 0
  /\ inFlight = <<>>
  /\ loops = [scheduled |-> 0, looping |-> 0, draining |-> 0]

Init ==
  /\ \E c \in Configs : Constructed(c)
  /\ historyFile = <<>>
  /\ now = 0
  /\ histOp = NoCall
  /\ playback = NoPlayback
  /\ matchRun = NoMatchRun
  /\ statsFile = NoStats
  /\ searchRun = NoSearchRun

Next ==
  \/ \E videos \in FetchResults, canSearch \in BOOLEAN :
       RecommendReturn(videos, canSearch, FALSE)
  \/ \E canSearch \in BOOLEAN : DiscoveryFails(canSearch)
  \/ RecommendThrows
  \/ WakeUp
  \/ \E results \in FetchResults : SearchReturn(results)
  \/ SearchThrows
  \/ \E outcome \in PlayOutcomes : PlayDone(outcome)
  \/ ActionDelayDone
  \/ \E outcome \in PlayOutcomes : SearchPlayDone(outcome)
  \/ \E p \in CpPlayers : WorkerWake(p)
  \/ \E p \in CpPlayers, outcome \in PlayOutcomes : WorkerPlayDone(p, outcome)
  \/ CpStopAllIdle
  \/ CpStopTimeout
  \/ CpStopCleanup
  \/ SimStart
  \/ SimLoopWake
  \/ SimDrainWake
  \/ \E k \in 1..Len(inFlight), outcome \in PlayOutcomes : SimWorkerDone(k, outcome)
  \/ Stop

Spec == Init /\ [][Next]_vars

(***************************************************************************)
(* Claims about the feeder and its back ends, checked under Spec.          *)
(***************************************************************************)
PendingTasks == {i \in 1..Len(taskQueue) : taskQueue[i].status = "pending"}
ActivePlayers == {p \in CpPlayers : players[p].isActive}

\* C1: in every playback mode the number of items waiting for a worker (the
\* single-thread videoQueue, the pending tasks of ConcurrentPlayer, the queue
\* of SimulatedPlaybackManager) never exceeds the configured maxQueueSize.
C1_QueueWithinCapacity ==
  /\ Len(videoQueue) <= maxQueueSize
  /\ Cardinality(PendingTasks) <= maxQueueSize
  /\ Len(simQueue) <= maxQueueSize

\* C2: no playback or telemetry session is started for a video whose id has a
\* record in the history store at the moment the session starts.
C2_NoSessionForWatched == ~lastStart.recorded

\* C4: 0 <= activeWorkers <= concurrentWorkers in SimulatedPlaybackManager, and
\* in ConcurrentPlayer no more players are active than were initialized.
C4_WorkersWithinPool ==
  /\ activeWorkers >= 0
  /\ activeWorkers <= concurrentWorkers
  /\ Cardinality(ActivePlayers) <= Cardinality(CpPlayers)

C4_Witness ==
  /\ Mode = "simulated"
  /\ inFlight # <<>>
  /\ activeWorkers = concurrentWorkers
  /\ simQueue # <<>>
  /\ loops.looping > 0

\* C5: no task is claimed by two workers: getNextTask returns each task at most
\* once and no two players hold the same task; every entry shifted from the
\* SimulatedPlaybackManager queue starts exactly one worker run, for that entry.
C5_NoDoubleClaim ==
  /\ [](/\ \A i \in 1..Len(taskQueue) : taskQueue[i].claims <= 1
        /\ \A p, q \in CpPlayers :
             p # q /\ players[p].currentTask # 0
               => players[p].currentTask # players[q].currentTask)
  /\ [][Len(inFlight') > Len(inFlight) =>
          LET new == SubSeq(inFlight', Len(inFlight) + 1, Len(inFlight')) IN
          simQueue = [k \in 1..Len(new) |->
                        [video |-> new[k].video, source |-> new[k].source]]
                     \o simQueue']_vars

C5_Witness ==
  /\ Cardinality(ActivePlayers) = 2
  /\ \A i \in 1..Len(taskQueue) : taskQueue[i].claims = 1

\* C6: a PlayTask's status only follows pending -> playing -> completed or
\* pending -> playing -> failed, and never changes once completed or failed.
C6_StatusPath ==
  \A i \in 1..Len(taskQueue) :
    /\ taskQueue[i].trail \in {<<"pending">>, <<"pending", "playing">>,
                               <<"pending", "playing", "completed">>,
                               <<"pending", "playing", "failed">>}
    /\ taskQueue[i].status = taskQueue[i].trail[Len(taskQueue[i].trail)]

C6_Witness ==
  \E i, j \in 1..Len(taskQueue) :
    /\ taskQueue[i].trail = <<"pending", "playing", "failed">>
    /\ taskQueue[j].trail = <<"pending", "playing", "completed">>

\* C7: at the end of a discovery cycle missedRounds is 0 if the cycle admitted an
\* item from passive discovery or its active search succeeded, and floor(m / 2)
\* if its active search failed, m being the counter when the search was triggered.
C7_MissCounter ==
  cycle.phase = "ended" =>
    /\ cycle.admitted # <<>> => missedRounds = 0
    /\ cycle.search = "ok" => missedRounds = 0
    /\ cycle.search = "failed" =>
         /\ 2 * missedRounds <= cycle.mAtSearch
         /\ cycle.mAtSearch < 2 * missedRounds + 2

C7_Witness ==
  /\ cycle.phase = "ended"
  /\ cycle.search = "failed"
  /\ cycle.mAtSearch = 2
  /\ missedRounds = 1

\* C10 as claimed: a passive cycle with m matches and cap c admits exactly the
\* first min(m, c) matches.
C10_ExactlyMinAdmitted ==
  cycle.matches # <<>> =>
    cycle.admitted = SubSeq(cycle.matches, 1, Min(Len(cycle.matches), maxVideosPerQueue))

\* C10 as amended: a passive cycle with m matches and cap c admits, in order,
\* those of the first min(m, c) matches that the back end does not filter out:
\* the single-thread queue leaves out the videos already in the history,
\* SimulatedPlaybackManager those and the videos already in its queue,
\* ConcurrentPlayer none; matches after the first min(m, c) are not admitted.
C10_AdmitsUnfilteredOfFirstMin ==
  cycle.matches # <<>> =>
    LET first == SubSeq(cycle.matches, 1, Min(Len(cycle.matches), maxVideosPerQueue))
        Passes(v) == Mode = "concurrent"
                     \/ (v \notin cycle.preWatched /\ v \notin cycle.preQueued)
    IN cycle.admitted = SelectSeq(first, Passes)

C10_Witness ==
  /\ Len(cycle.matches) = 2
  /\ maxVideosPerQueue = 1
  /\ cycle.admitted = <<cycle.matches[1]>>
  /\ cycle.matches[2] # cycle.matches[1]

(***************************************************************************)
(* HistoryService on its own: calls arrive in any order on a file that     *)
(* already holds lines, some of which may not parse.  The feeder is left   *)
(* as constructed.                                                         *)
(***************************************************************************)
Unparsable == [ok |-> FALSE, id |-> 0, source |-> "home", day |-> 0]
PriorLines == {HistoryLine(v, "home", 0) : v \in Videos} \cup {Unparsable}
PriorFiles == UNION {[1..n -> PriorLines] : n \in 0..(MaxLines - 1)}

Standalone ==
  Constructed([useSimulatedPlayback |-> FALSE, concurrentPlayers |-> 1,
               maxQueueSize |-> 1, maxVideosPerQueue |-> 1,
               activeSearchThreshold |-> 1, enableActiveSearch |-> FALSE])

\* HistoryService.cleanupOldHistory: keep the lines not older than the cutoff
\* and the lines that do not parse; rewrite the file only if a line was dropped
cleanupOldHistory(file, clock, daysToKeep) ==
  LET Kept(line) == ~line.ok \/ line.day >= clock - daysToKeep
      validLines == SelectSeq(file, Kept)
  IN IF Len(validLines) < Len(file) THEN validLines ELSE file

HistRecordWatch(v, source) ==
  /\ Len(historyFile) < MaxLines
  /\ historyFile' = recordWatch(historyFile, v, source, now)
  /\ histOp' = [op |-> "recordWatch", id |-> v,
                before |-> hasWatched(historyFile, v), result |-> FALSE]
  /\ UNCHANGED <<feedVars, now, playback, matchRun, statsFile, searchRun>>

HistHasWatched(v) ==
  /\ histOp' = [op |-> "hasWatched", id |-> v,
                before |-> hasWatched(historyFile, v),
                result |-> hasWatched(historyFile, v)]
  /\ UNCHANGED <<feedVars, historyFile, now, playback, matchRun, statsFile, searchRun>>

HistCleanup(daysToKeep) ==
  /\ historyFile' = cleanupOldHistory(historyFile, now, daysToKeep)
  /\ histOp' = [op |-> "cleanupOldHistory", id |-> 0, before |-> FALSE,
                result |-> FALSE]
  /\ UNCHANGED <<feedVars, now, playback, matchRun, statsFile, searchRun>>

TimePasses ==
  /\ now < MaxClock
  /\ now' = now + 1
  /\ UNCHANGED <<feedVars, historyFile, histOp, playback, matchRun, statsFile, searchRun>>

InitHistory ==
  /\ Standalone
  /\ historyFile \in PriorFiles
  /\ now = 0
  /\ histOp = NoCall
  /\ playback = NoPlayback
  /\ matchRun = NoMatchRun
  /\ statsFile = NoStats
  /\ searchRun = NoSearchRun

NextHistory ==
  \/ \E v \in Videos, source \in Sources : HistRecordWatch(v, source)
  \/ \E v \in Videos : HistHasWatched(v)
  \/ \E daysToKeep \in 0..MaxClock : HistCleanup(daysToKeep)
  \/ TimePasses

SpecHistory == InitHistory /\ [][NextHistory]_vars

C14_AppendOnly ==
  [][/\ Len(historyFile') >= Len(historyFile)
     /\ SubSeq(historyFile', 1, Len(historyFile)) = historyFile
     /\ \A v \in Videos : hasWatched(historyFile, v) => hasWatched(historyFile', v)]_vars

(***************************************************************************)
(* HistoryService.recordWatch with its statistics.  The workers of one     *)
(* process call recordWatch in any order; a call appends its line, reads   *)
(* the statistics document, increments and writes it back with the         *)
(* synchronous file functions and no await in between, so it is one step.  *)
(* The feeder never branches on the statistics, which is why only this     *)
(* specification follows statsFile.                                        *)
(***************************************************************************)
\* the line recordWatch appends, with its matchedKeywords
WatchRecord(video, matchedKeywords, source, day) ==
  [ok |-> TRUE, id |-> video, source |-> source, day |-> day,
   keywords |-> matchedKeywords]

updateStatsLosesKeywords(stats, source, matchedKeywords) ==
  [stats EXCEPT !.totalVideos = @ + 1, !.sourceStats[source] = @ + 1]

\* HistoryService.updateStats on the document getStats has read (a missing
\* document or counter reads as 0): one increment of totalVideos, one of the
\* record's source, one for every element of matchedKeywords
updateStats(stats, source, matchedKeywords) ==
  [totalVideos |-> stats.totalVideos + 1,
   sourceStats |-> [stats.sourceStats EXCEPT ![source] = @ + 1],
   keywordStats |->
     [k \in StatKeywords |->
        stats.keywordStats[k] +
          Cardinality({i \in 1..Len(matchedKeywords) : matchedKeywords[i] = k})]]

StatsRecordWatch(v, matchedKeywords, source) ==
  /\ Len(historyFile) < MaxLines
  /\ historyFile' = Append(historyFile, WatchRecord(v, matchedKeywords, source, now))
  /\ statsFile' = updateStats(statsFile, source, matchedKeywords)
  /\ histOp' = [op |-> "recordWatch", id |-> v,
                before |-> hasWatched(historyFile, v), result |-> FALSE]
  /\ UNCHANGED <<feedVars, now, playback, matchRun, searchRun>>

InitStats ==
  /\ Standalone
  /\ historyFile = <<>>
  /\ now = 0
  /\ histOp = NoCall
  /\ playback = NoPlayback
  /\ matchRun = NoMatchRun
  /\ statsFile = NoStats
  /\ searchRun = NoSearchRun

\* matchedKeywords follow the order of the configured keywords, which may name
\* a keyword twice
NextStats ==
  \E v \in Videos, source \in Sources :
    \E matchedKeywords \in UNION {[1..n -> StatKeywords] : n \in 0..MaxKeywords} :
      StatsRecordWatch(v, matchedKeywords, source)

SpecStats == InitStats /\ [][NextStats]_vars

\* C15 as claimed: totalVideos is the number of records appended, and every
\* per-source and per-keyword counter is the number of appended records that
\* carry the source or the keyword.
C15_CountersCountRecords ==
  /\ statsFile.totalVideos = Len(historyFile)
  /\ \A s \in Sources :
       statsFile.sourceStats[s] =
         Cardinality({i \in 1..Len(historyFile) : historyFile[i].source = s})
  /\ \A k \in StatKeywords :
       statsFile.keywordStats[k] =
         Cardinality({i \in 1..Len(historyFile) :
                        \E j \in 1..Len(historyFile[i].keywords) :
                          historyFile[i].keywords[j] = k})

\* C15 as amended: totalVideos is the number of records appended, every
\* per-source counter is the number of appended records with that source, and
\* every per-keyword counter is the number of times the keyword occurs in the
\* matchedKeywords of the appended records (the number of records carrying it
\* when no record names a keyword twice): no increment is lost.
C15_NoLostIncrement ==
  /\ statsFile.totalVideos = Len(historyFile)
  /\ \A s \in Sources :
       statsFile.sourceStats[s] =
         Cardinality({i \in 1..Len(historyFile) : historyFile[i].source = s})
  /\ \A k \in StatKeywords :
       statsFile.keywordStats[k] =
         Cardinality({ij \in (1..Len(historyFile)) \X (1..MaxKeywords) :
                        /\ ij[2] <= Len(historyFile[ij[1]].keywords)
                        /\ historyFile[ij[1]].keywords[ij[2]] = k})

C15_Witness ==
  /\ Len(historyFile) = MaxLines
  /\ statsFile.totalVideos = MaxLines
  /\ \E i, j \in 1..Len(historyFile) :
       /\ i # j
       /\ historyFile[i].source # historyFile[j].source
       /\ historyFile[i].keywords # <<>>
       /\ historyFile[i].keywords = historyFile[j].keywords

(***************************************************************************)
(* BilibiliPlaybackSimulator on its own.  Math.random() is k / RandomSteps *)
(* for k in 0 .. RandomSteps - 1; durations are counted in ticks, Unit     *)
(* ticks to the second, so that every product the code forms is a whole    *)
(* number of ticks.                                                        *)
(***************************************************************************)
Unit == 200 * RandomSteps * RandomSteps
Randoms == 0..(RandomSteps - 1)

RawSpeeds == {2, 7}
RawVariations == {5, 60}
SimulatedDurations == {4, 30}
VideoDurations == {0, 1, 5, 6, 40}

\* the constructor's clamps
clampSpeed(raw) == Max(MinPlaybackSpeed, Min(raw, MaxPlaybackSpeed))
clampVariation(raw) == Max(0, Min(raw, MaxDurationVariation))

\* simulatedDuration * ((1 - halfVariation) + random * (halfVariation * 2))
randomizedDuration(simulated, variation, k) ==
  (simulated * Unit * (200 * RandomSteps - variation * RandomSteps + 2 * k * variation))
    \div (200 * RandomSteps)

\* 1 + Math.random() * 2
bufferTime(k) == Unit + (2 * k * Unit) \div RandomSteps

actualVideoDuration(d) == IF d # 0 THEN d ELSE DefaultVideoDuration

maxSafeSimulatedDuration(d, k) ==
  Max(MinSimulatedDuration * Unit, actualVideoDuration(d) * Unit - bufferTime(k))

safeSimulatedDuration(simulated, variation, d, k1, k2) ==
  Min(randomizedDuration(simulated, variation, k1), maxSafeSimulatedDuration(d, k2))

baseHeartbeatInterval(speed) == Max(MinHeartbeatInterval, HeartbeatSeconds \div speed)
totalSteps(pb) == pb.target \div (baseHeartbeatInterval(pb.playbackSpeed) * Unit)
remainder(pb) == pb.target % (baseHeartbeatInterval(pb.playbackSpeed) * Unit)

\* (Math.random() - 0.5) * spread
randomOffset(k, spread) == (spread * k * Unit) \div RandomSteps - (spread * Unit) \div 2

Returned(pb, ok, result) ==
  [pb EXCEPT !.pc = "returned", !.ok = ok, !.result = result]

\* simulatePlayback is called: the code up to the fetch of visitVideoPage
SimulateStart(simulated, source) ==
  /\ playback.pc \in {"idle", "returned"}
  /\ playback' = [NoPlayback EXCEPT !.pc = "visiting",
                                    !.playbackSpeed = playback.playbackSpeed,
                                    !.durationVariation = playback.durationVariation,
                                    !.simulatedDuration = simulated,
                                    !.source = source]
  /\ UNCHANGED <<feedVars, historyFile, now, histOp, matchRun, statsFile, searchRun>>

\* visitVideoPage returns; getVideoInfo sends its request
VisitReturns ==
  /\ playback.pc = "visiting"
  /\ playback' = [playback EXCEPT !.pc = "resolving"]
  /\ UNCHANGED <<feedVars, historyFile, now, histOp, matchRun, statsFile, searchRun>>

\* the fetch of visitVideoPage rejects: the catch of simulatePlayback returns 0
VisitThrows ==
  /\ playback.pc = "visiting"
  /\ playback' = Returned(playback, FALSE, 0)
  /\ UNCHANGED <<feedVars, historyFile, now, histOp, matchRun, statsFile, searchRun>>

\* getVideoInfo returns the video's duration d; the target duration is
\* computed and simulatePlaybackHeartbeat entered
InfoReturns(d, k1, k2) ==
  /\ playback.pc = "resolving"
  /\ playback' = [playback EXCEPT
       !.pc = "beating",
       !.duration = d,
       !.target = safeSimulatedDuration(playback.simulatedDuration,
                                        playback.durationVariation, d, k1, k2)]
  /\ UNCHANGED <<feedVars, historyFile, now, histOp, matchRun, statsFile, searchRun>>

InfoThrowsThenReports ==
  /\ playback.pc = "resolving"
  /\ playback' = [Returned(playback, FALSE, 0) EXCEPT !.reports = @ + 1]
  /\ UNCHANGED <<feedVars, historyFile, now, histOp, matchRun, statsFile, searchRun>>

\* getVideoInfo throws (code # 0, or its fetch rejects)
InfoThrows ==
  /\ playback.pc = "resolving"
  /\ playback' = Returned(playback, FALSE, 0)
  /\ UNCHANGED <<feedVars, historyFile, now, histOp, matchRun, statsFile, searchRun>>

\* the heartbeat of the next step of the loop; the catch of sendHeartbeat
\* swallows a failed request (sent = FALSE), which playback.failed remembers
RegularBeat(k, sent) ==
  /\ playback.pc = "beating"
  /\ playback.step < totalSteps(playback)
  /\ LET i == playback.step + 1
         currentTime == i * baseHeartbeatInterval(playback.playbackSpeed) * Unit
                        + randomOffset(k, 4)
     IN playback' = [playback EXCEPT
          !.step = i, !.stage = "beat", !.current = currentTime,
          !.beat = [kind |-> "regular", played |-> Max(0, currentTime), sent |-> sent],
          !.failed = @ \/ ~sent]
  /\ UNCHANGED <<feedVars, historyFile, now, histOp, matchRun, statsFile, searchRun>>

\* Math.random() < 0.08: the pause, then the heartbeat that resumes playback
PauseBeat(sent) ==
  /\ playback.pc = "beating"
  /\ playback.stage = "beat"
  /\ playback' = [playback EXCEPT
       !.stage = "pause",
       !.beat = [kind |-> "pause", played |-> Max(0, playback.current), sent |-> sent],
       !.failed = @ \/ ~sent]
  /\ UNCHANGED <<feedVars, historyFile, now, histOp, matchRun, statsFile, searchRun>>

\* Math.random() < 0.03 && i > 2: the seek heartbeat
SeekBeat(k, sent) ==
  /\ playback.pc = "beating"
  /\ playback.stage \in {"beat", "pause"}
  /\ playback.step > 2
  /\ playback' = [playback EXCEPT
       !.stage = "top",
       !.beat = [kind |-> "seek", played |-> (k * playback.current) \div RandomSteps,
                 sent |-> sent],
       !.failed = @ \/ ~sent]
  /\ UNCHANGED <<feedVars, historyFile, now, histOp, matchRun, statsFile, searchRun>>

\* after the loop: the final heartbeat, sent if the target is not a multiple
\* of the interval
FinalBeat(k, sent) ==
  /\ playback.pc = "beating"
  /\ playback.step = totalSteps(playback)
  /\ remainder(playback) > 0
  /\ playback' = [playback EXCEPT
       !.pc = "closing",
       !.beat = [kind |-> "final",
                 played |-> Max(0, playback.target + randomOffset(k, 2)),
                 sent |-> sent],
       !.failed = @ \/ ~sent]
  /\ UNCHANGED <<feedVars, historyFile, now, histOp, matchRun, statsFile, searchRun>>

\* reportPlayHistory returns (its own catch swallows a failed request,
\* sent = FALSE) and simulatePlayback returns the target duration
ReportDone(sent) ==
  /\ \/ playback.pc = "closing"
     \/ /\ playback.pc = "beating"
        /\ playback.step = totalSteps(playback)
        /\ remainder(playback) = 0
  /\ playback' = [Returned(playback, TRUE, playback.target) EXCEPT
                     !.reports = @ + 1, !.failed = @ \/ ~sent]
  /\ UNCHANGED <<feedVars, historyFile, now, histOp, matchRun, statsFile, searchRun>>

InitSimulator ==
  /\ Standalone
  /\ historyFile = <<>>
  /\ now = 0
  /\ histOp = NoCall
  /\ \E speed \in RawSpeeds, variation \in RawVariations :
       playback = [NoPlayback EXCEPT !.playbackSpeed = clampSpeed(speed),
                                     !.durationVariation = clampVariation(variation)]
  /\ matchRun = NoMatchRun
  /\ statsFile = NoStats
  /\ searchRun = NoSearchRun

NextSimulator ==
  \/ \E simulated \in SimulatedDurations, source \in Sources :
       SimulateStart(simulated, source)
  \/ VisitReturns
  \/ VisitThrows
  \/ \E d \in VideoDurations, k1, k2 \in Randoms : InfoReturns(d, k1, k2)
  \/ InfoThrows
  \/ \E k \in Randoms, sent \in BOOLEAN : RegularBeat(k, sent)
  \/ \E sent \in BOOLEAN : PauseBeat(sent)
  \/ \E k \in Randoms, sent \in BOOLEAN : SeekBeat(k, sent)
  \/ \E k \in Randoms, sent \in BOOLEAN : FinalBeat(k, sent)
  \/ \E sent \in BOOLEAN : ReportDone(sent)

SpecSimulator == InitSimulator /\ [][NextSimulator]_vars

\* C3: every successful simulatePlayback on a video of true duration d >= 1
\* returns at most d - 1 seconds, short videos (d <= 5) included.
C3_ReportedWithinDuration ==
  (playback.pc = "returned" /\ playback.ok /\ playback.duration >= 1)
    => playback.result <= (playback.duration - 1) * Unit

\* C24: in simulatePlayback a failure of any step (page visit, metadata
\* resolution, a heartbeat send, the closing history report) aborts the
\* remaining steps and makes the invocation return 0: the step that fails is
\* the one that returns, and an invocation that met a failure returns 0.
C24_AnyFailureReturnsZero ==
  /\ playback.failed => playback.pc = "returned"
  /\ (playback.pc = "returned" /\ (playback.failed \/ ~playback.ok))
       => playback.result = 0

\* C25: in every simulatePlayback invocation no heartbeat and no closing
\* report is sent before metadata resolution has completed; every heartbeat
\* is sent while no closing report has been sent; an invocation whose
\* metadata resolution succeeded returns after exactly one closing report, and
\* one whose page visit or metadata resolution failed returns after no
\* heartbeat and no closing report.
C25_ResolveBeatReport ==
  /\ [](/\ playback.pc \in {"idle", "visiting", "resolving"}
             => (playback.beat = NoBeat /\ playback.reports = 0)
        /\ playback.pc \in {"beating", "closing"} => playback.reports = 0
        /\ (playback.pc = "returned" /\ playback.ok) => playback.reports = 1
        /\ (playback.pc = "returned" /\ ~playback.ok)
             => (playback.beat = NoBeat /\ playback.reports = 0))
  /\ [][/\ (playback'.beat # playback.beat /\ playback'.beat # NoBeat)
            => /\ playback.pc = "beating"
               /\ playback'.pc \in {"beating", "closing"}
               /\ playback.reports = 0 /\ playback'.reports = 0
        /\ playback'.reports > playback.reports
            => /\ playback.pc \in {"beating", "closing"}
               /\ playback'.pc = "returned"
               /\ playback'.beat = playback.beat]_vars

C25_Witness ==
  /\ playback.pc = "returned"
  /\ playback.ok
  /\ playback.reports = 1
  /\ playback.step >= 2
  /\ playback.beat.kind = "final"

\* C26: the regular heartbeat of step i (1 <= i <= totalSteps) reports an
\* elapsed time within one second of i * baseInterval.
C26_RegularBeatWithinOneSecond ==
  playback.beat.kind = "regular" =>
    LET at == playback.step * baseHeartbeatInterval(playback.playbackSpeed) * Unit
    IN /\ playback.step \in 1..totalSteps(playback)
       /\ playback.beat.played >= at - Unit
       /\ playback.beat.played <= at + Unit

\* C33: every heartbeat of a simulatePlayback run (regular, pause, seek,
\* final) on a video whose true duration d >= 1 is known reports a played time
\* of at least 0 and at most d.
C33_BeatWithinDuration ==
  (playback.beat.kind # "none" /\ playback.duration >= 1) =>
    /\ playback.beat.played >= 0
    /\ playback.beat.played <= playback.duration * Unit

(***************************************************************************)
(* MatchService on its own.  A string is the sequence of its characters;   *)
(* the alphabet has a letter in both cases, a caseless letter and the      *)
(* space the search text puts between title and author.                    *)
(***************************************************************************)
Letters == {"a", "A", "b"}
Strings(n) == UNION {[1..m -> Letters] : m \in 0..n}
KeywordPool == {<<"a">>, <<"A">>, <<"A", "b">>, <<"b", "b">>}
KeywordLists == UNION {[1..n -> KeywordPool] : n \in 1..MaxKeywords}
Authors == {<<>>, <<"A">>}
TagLists == {<<>>, << <<"b", "b">> >>}

\* String.prototype.toLowerCase
toLowerCase(str) == [i \in 1..Len(str) |-> IF str[i] = "A" THEN "a" ELSE str[i]]

\* String.prototype.includes
includes(text, part) ==
  \E i \in 0..(Len(text) - Len(part)) : SubSeq(text, i + 1, i + Len(part)) = part

\* `${video.title} ${video.author || ''}`.toLowerCase()
searchText(title, author) == toLowerCase(title \o <<" ">> \o author)

keywordToCheck(keyword, caseSensitive) ==
  IF caseSensitive THEN keyword ELSE toLowerCase(keyword)

\* MatchService.checkVideoMatch
checkVideoMatch(keywords, matchMode, caseSensitive, title, author) ==
  LET Hit(keyword) ==
        includes(searchText(title, author), keywordToCheck(keyword, caseSensitive))
      matchedKeywords == SelectSeq(keywords, Hit)
  IN IF matchMode = "all"
       THEN IF Len(matchedKeywords) = Len(keywords) THEN matchedKeywords ELSE <<>>
       ELSE matchedKeywords

\* Array.prototype.join(' ')
RECURSIVE join(_)
join(texts) ==
  IF Len(texts) = 0 THEN <<>>
  ELSE IF Len(texts) = 1 THEN texts[1]
  ELSE texts[1] \o <<" ">> \o join(Tail(texts))

\* KeywordMatcher.prepareTextForMatching: title, author if there is one, tags
prepareTextForMatching(caseSensitive, title, author, tags) ==
  LET texts == <<title>> \o (IF author # <<>> THEN <<author>> ELSE <<>>) \o tags
  IN IF caseSensitive THEN join(texts) ELSE toLowerCase(join(texts))

\* KeywordMatcher.match with performMatching
match(keywords, matchMode, caseSensitive, title, author, tags) ==
  LET text == prepareTextForMatching(caseSensitive, title, author, tags)
      Hit(j) == includes(text, keywordToCheck(keywords[j], caseSensitive))
  IN /\ Len(keywords) # 0
     /\ IF matchMode = "all" THEN \A j \in 1..Len(keywords) : Hit(j)
        ELSE \E j \in 1..Len(keywords) : Hit(j)

\* one video put to both matchers: matcher.match at admission (feedingLoop)
\* and matchService.checkVideoMatch when its run is recorded
CheckVideoMatch(title, author, tags) ==
  /\ matchRun' = [matchRun EXCEPT
       !.pc = "returned", !.title = title, !.author = author, !.tags = tags,
       !.matched = match(matchRun.keywords, matchRun.matchMode,
                         matchRun.caseSensitive, title, author, tags),
       !.result = checkVideoMatch(matchRun.keywords, matchRun.matchMode,
                                  matchRun.caseSensitive, title, author)]
  /\ UNCHANGED <<feedVars, historyFile, now, histOp, playback, statsFile, searchRun>>

InitMatch ==
  /\ Standalone
  /\ historyFile = <<>>
  /\ now = 0
  /\ histOp = NoCall
  /\ playback = NoPlayback
  /\ \E keywords \in KeywordLists, matchMode \in {"any", "all"},
        caseSensitive \in BOOLEAN :
       matchRun = [NoMatchRun EXCEPT !.keywords = keywords,
                                     !.matchMode = matchMode,
                                     !.caseSensitive = caseSensitive]
  /\ statsFile = NoStats
  /\ searchRun = NoSearchRun

NextMatch ==
  \E title \in Strings(MaxTitle), author \in Authors, tags \in TagLists :
    CheckVideoMatch(title, author, tags)

SpecMatch == InitMatch /\ [][NextMatch]_vars

\* The search text the matcher is specified to use: title and author,
\* case-folded unless case sensitivity is configured.
Present(keyword, run) ==
  LET text == run.title \o <<" ">> \o run.author
  IN IF run.caseSensitive
       THEN includes(text, keyword)
       ELSE includes(toLowerCase(text), toLowerCase(keyword))

\* C8: checkVideoMatch in mode 'all' returns the whole keyword list when every
\* keyword is a substring of the search text and the empty list otherwise; in
\* mode 'any' it returns exactly the keywords that are substrings of the
\* search text, in configured order.
C8_ModeSemantics ==
  matchRun.pc = "returned" =>
    LET IsPresent(keyword) == Present(keyword, matchRun)
        present == SelectSeq(matchRun.keywords, IsPresent)
    IN matchRun.result =
         IF matchRun.matchMode = "any" THEN present
         ELSE IF Len(present) = Len(matchRun.keywords) THEN matchRun.keywords
         ELSE <<>>

\* C27: with caseSensitive = TRUE a keyword is reported as matched if and only
\* if it occurs in title + author with identical letter case (the text is not
\* case-folded); with caseSensitive = FALSE it is reported if and only if it
\* occurs there up to letter case.  (Mode 'all' reports keywords only when
\* every keyword occurs.)
C27_CaseSensitivity ==
  matchRun.pc = "returned" =>
    LET text == matchRun.title \o <<" ">> \o matchRun.author
        Occurs(keyword) ==
          IF matchRun.caseSensitive
            THEN includes(text, keyword)
            ELSE includes(toLowerCase(text), toLowerCase(keyword))
        Reported(keyword) ==
          \E i \in 1..Len(matchRun.result) : matchRun.result[i] = keyword
        all == \A j \in 1..Len(matchRun.keywords) : Occurs(matchRun.keywords[j])
    IN \A j \in 1..Len(matchRun.keywords) :
         Reported(matchRun.keywords[j]) <=>
           (Occurs(matchRun.keywords[j]) /\ (matchRun.matchMode = "all" => all))

\* C30: missedRounds counts the consecutive discovery cycles that admitted
\* nothing: a cycle whose discovery returned (no exception, not skipped for a
\* full queue) resets the counter if it admits at least one item and adds
\* exactly one to it if it admits nothing (an Active Search the counter then
\* triggers resets or halves the incremented value).
C30_CountsEmptyCycles ==
  [][(fpc = "fetching" /\ fpc' # "fetching" /\ ~cycle'.failed /\ ~cycle'.skipped) =>
       /\ cycle'.admitted # <<>> => missedRounds' = 0
       /\ cycle'.admitted = <<>> =>
            IF cycle'.search = "none" THEN missedRounds' = missedRounds + 1
            ELSE cycle'.mAtSearch = missedRounds + 1]_vars

\* C31: with a worker back end (simulated or concurrent mode), whatever the
\* interleaving of discovery cycles and worker runs, the watch history never
\* holds two records of the same item id.
C31_OneRecordPerItem ==
  Mode # "single" =>
    \A i, j \in 1..Len(historyFile) :
      (i # j /\ historyFile[i].ok /\ historyFile[j].ok)
        => historyFile[i].id # historyFile[j].id

\* C32: with active search enabled and threshold T, missedRounds never
\* exceeds T and is below T at the end of every cycle; a failed Active Search
\* leaves floor(T / 2), every later cycle without a match adds exactly one, and
\* the search is triggered in exactly the cycle in which the counter reaches T,
\* i.e. T - floor(T / 2) cycles without a match after a failed search.
C32_CounterBelowThreshold ==
  /\ [](config.enableActiveSearch =>
          /\ missedRounds <= threshold
          /\ cycle.phase = "ended" => missedRounds < threshold
          /\ (cycle.phase = "ended" /\ cycle.search = "failed")
               => missedRounds = threshold \div 2)
  /\ [][(/\ config.enableActiveSearch
          /\ fpc = "fetching" /\ fpc' # "fetching"
          /\ ~cycle'.failed /\ ~cycle'.skipped /\ cycle'.matches = <<>>)
         => /\ cycle'.search # "none" <=> missedRounds + 1 = threshold
            /\ cycle'.search = "none" => missedRounds' = missedRounds + 1
            /\ cycle'.search # "none" => cycle'.mAtSearch = threshold]_vars

\* a search that failed at threshold MaxThreshold has left floor(T / 2)
C32_Witness ==
  /\ config.enableActiveSearch
  /\ threshold = MaxThreshold
  /\ cycle.phase = "ended"
  /\ cycle.search = "failed"
  /\ cycle.mAtSearch = MaxThreshold
  /\ missedRounds = MaxThreshold \div 2

\* C34: SimulatedPlaybackManager.videoQueue never holds two entries with the
\* same video id, whatever the addToQueue calls and dispatches, a batch that
\* names an id twice included.
C34_QueueHasNoDuplicate ==
  \A i, j \in 1..Len(simQueue) : i # j => simQueue[i].video # simQueue[j].video

\* C35: for every video and matcher configuration KeywordMatcher.match is
\* true exactly when MatchService.checkVideoMatch returns a non-empty list.
C35_MatchersAgree ==
  matchRun.pc = "returned" => (matchRun.matched <=> matchRun.result # <<>>)

\* C36 as claimed: at every suspension point the number of 'playing' tasks is
\* the number of players of this.players with isActive, each of these players
\* has a 'playing' currentTask that carries its id, and an idle player has no
\* currentTask.
C36_ListedActiveMatchesPlaying ==
  /\ Cardinality({i \in 1..Len(taskQueue) : taskQueue[i].status = "playing"})
       = Cardinality({p \in listedPlayers : players[p].isActive})
  /\ \A p \in listedPlayers :
       IF players[p].isActive
         THEN /\ players[p].currentTask \in 1..Len(taskQueue)
              /\ taskQueue[players[p].currentTask].status = "playing"
              /\ taskQueue[players[p].currentTask].playerId = p
         ELSE players[p].currentTask = 0

\* C36 as amended: the same over the PlayerInstance objects the workers hold,
\* which are the players of this.players until stop has emptied that list.
C36_ActiveMatchesPlaying ==
  /\ Cardinality({i \in 1..Len(taskQueue) : taskQueue[i].status = "playing"})
       = Cardinality({p \in CpPlayers : players[p].isActive})
  /\ \A p \in CpPlayers :
       IF players[p].isActive
         THEN /\ players[p].currentTask \in 1..Len(taskQueue)
              /\ taskQueue[players[p].currentTask].status = "playing"
              /\ taskQueue[players[p].currentTask].playerId = p
         ELSE players[p].currentTask = 0
  /\ \A p \in CpPlayers \ listedPlayers : cpStop.pc = "stopped"

\* one player in a run, another idle after a finished run
C36_Witness ==
  /\ Mode = "concurrent"
  /\ cpStop.pc = "idle"
  /\ \E p, q \in CpPlayers :
       /\ players[p].isActive
       /\ taskQueue[players[p].currentTask].playerId = p
       /\ ~players[q].isActive
       /\ \E i \in 1..Len(taskQueue) :
            taskQueue[i].playerId = q /\ taskQueue[i].status \in {"completed", "failed"}

\* C12 as claimed, for the exceptions of an Active Search: a rejected
\* searchVideos leads to the 60 s backoff sleep (or, once stopped, to the exit).
C12_SearchErrorBacksOff ==
  [][SearchThrows => fpc' \in {"backoff", "exited"}]_vars

\* C12 as amended: feedingLoop is left only with isRunning = FALSE; a cycle in
\* which an exception reaches the catch of feedingLoop goes to the 60 s backoff
\* sleep while isRunning holds, and the loop leaves that sleep only into a new
\* cycle (isRunning still TRUE) or, after stop, into its exit.
C12_LoopSurvivesErrors ==
  [][/\ fpc' = "exited" => ~isRunning'
     /\ ~cycle.failed /\ cycle'.failed =>
          fpc' = IF isRunning THEN "backoff" ELSE "exited"
     /\ fpc = "backoff" /\ fpc' # "backoff" =>
          IF isRunning THEN fpc' = "fetching" /\ cycle' = NewCycle
          ELSE fpc' = "exited"]_vars

C12_Witness == fpc = "backoff" /\ cycle.failed /\ isRunning /\ missedRounds > 0

\* C13: once stop has set isRunning to FALSE no step admits an item to a queue
\* (the feeder's videoQueue, the task queue of ConcurrentPlayer, the queue of
\* SimulatedPlaybackManager) and no step starts a playback session (a
\* playTargetVideo of the feeder, a task set to playing, a simulated run put
\* in flight).
C13_NothingNewAfterStop ==
  [][~isRunning =>
       /\ Len(videoQueue') <= Len(videoQueue)
       /\ Len(taskQueue') <= Len(taskQueue)
       /\ Len(simQueue') <= Len(simQueue)
       /\ lastStart' = lastStart
       /\ Len(inFlight') <= Len(inFlight)
       /\ \A i \in 1..Len(taskQueue) :
            taskQueue'[i].status = "playing" => taskQueue[i].status = "playing"]_vars

\* C16: a cycle whose discovery call returns while the queue that feeds the
\* workers holds at least maxQueueSize waiting items (as it has since the cycle
\* began: during the call items only leave that queue) admits nothing, leaves
\* missedRounds unchanged, runs no Active Search and goes to the normal sleep.
C16_FullQueueSkipsCycle ==
  [][LET waiting == CASE Mode = "simulated" -> Len(simQueue)
                      [] Mode = "concurrent" -> Cardinality(PendingTasks)
                      [] OTHER -> Len(videoQueue)
     IN fpc = "fetching" /\ fpc' # "fetching" /\ ~cycle'.failed
          /\ waiting >= maxQueueSize =>
            /\ Len(videoQueue') <= Len(videoQueue)
            /\ Len(taskQueue') = Len(taskQueue)
            /\ Len(simQueue') <= Len(simQueue)
            /\ missedRounds' = missedRounds
            /\ cycle'.search = "none"
            /\ fpc' = EndOfCycle]_vars

\* C17: a cycle calls performActiveSearch if and only if active search is
\* enabled, the cycle found no matching candidate (it neither skipped admission
\* nor failed) and missedRounds after the cycle's increment is at least the
\* threshold; a cycle that found a match or skipped admission never searches.
C17_SearchIffThreshold ==
  LET missed == cycle.matches = <<>> /\ ~cycle.skipped /\ ~cycle.failed IN
  /\ cycle.search # "none" =>
       config.enableActiveSearch /\ missed /\ cycle.mAtSearch >= threshold
  /\ cycle.phase = "ended" /\ cycle.search = "none" /\ missed =>
       ~(config.enableActiveSearch /\ missedRounds >= threshold)
  /\ cycle.matches # <<>> \/ cycle.skipped => cycle.search = "none"

C17_Witness ==
  /\ cycle.phase = "ended"
  /\ cycle.search = "ok"
  /\ threshold = MaxThreshold
  /\ cycle.mAtSearch = threshold

\* C18 as claimed: when searchVideos resolves with a non-empty list, all the
\* matching results (the first result when none matches) are admitted with
\* source = search: appended to the queue of the back end or, in single-thread
\* mode, played.
C18_AllTargetsAdmitted ==
  [][\A results \in FetchResults :
       results # <<>> /\ SearchReturn(results) =>
         LET targets == IF targetVideosOf(results) = <<>> THEN <<results[1].id>>
                        ELSE targetVideosOf(results)
             n == Len(targets)
         IN CASE Mode = "simulated" ->
                   /\ Len(simQueue') = Len(simQueue) + n
                   /\ \A i \in 1..n :
                        simQueue'[Len(simQueue) + i] =
                          [video |-> targets[i], source |-> "search"]
              [] Mode = "concurrent" ->
                   /\ Len(taskQueue') = Len(taskQueue) + n
                   /\ \A i \in 1..n :
                        /\ taskQueue'[Len(taskQueue) + i].video = targets[i]
                        /\ taskQueue'[Len(taskQueue) + i].source = "search"
              [] OTHER ->
                   \A i \in 1..n : lastStart'.video = targets[i] /\ lastStart'.via = "search"]_vars

\* C18 as amended: when searchVideos resolves with a non-empty list whose
\* targets are the matching results (the first result when none matches),
\* ConcurrentPlayer gets all targets as pending tasks with source = search,
\* SimulatedPlaybackManager gets those targets that are neither in the history
\* nor in its queue, with source = search, and the single-thread feeder plays
\* the first target only, with source = search; nothing else is admitted, and
\* the search counts as a success (missedRounds becomes 0), in single-thread
\* mode when the play has ended, whatever its outcome.
C18_SearchAdmission ==
  [][/\ \A results \in FetchResults :
          results # <<>> /\ SearchReturn(results) =>
            LET targets == IF targetVideosOf(results) = <<>> THEN <<results[1].id>>
                           ELSE targetVideosOf(results)
                Fresh(v) == /\ ~hasWatched(historyFile, v)
                            /\ \A i \in 1..Len(simQueue) : simQueue[i].video # v
                fresh == SelectSeq(targets, Fresh)
            IN CASE Mode = "simulated" ->
                      /\ simQueue' = simQueue \o
                           [i \in 1..Len(fresh) |-> [video |-> fresh[i], source |-> "search"]]
                      /\ UNCHANGED <<taskQueue, videoQueue, lastStart>>
                      /\ missedRounds' = 0 /\ cycle'.search = "ok"
                 [] Mode = "concurrent" ->
                      /\ Len(taskQueue') = Len(taskQueue) + Len(targets)
                      /\ SubSeq(taskQueue', 1, Len(taskQueue)) = taskQueue
                      /\ \A i \in 1..Len(targets) :
                           /\ taskQueue'[Len(taskQueue) + i].video = targets[i]
                           /\ taskQueue'[Len(taskQueue) + i].source = "search"
                           /\ taskQueue'[Len(taskQueue) + i].status = "pending"
                      /\ UNCHANGED <<simQueue, videoQueue, lastStart>>
                      /\ missedRounds' = 0 /\ cycle'.search = "ok"
                 [] OTHER ->
                      /\ lastStart'.video = targets[1] /\ lastStart'.via = "search"
                      /\ curVideo' = targets[1]
                      /\ fpc' = "searchPlaying"
                      /\ UNCHANGED <<simQueue, taskQueue, videoQueue>>
     /\ fpc = "searchPlaying" /\ fpc' # "searchPlaying" =>
          missedRounds' = 0 /\ cycle'.search = "ok"]_vars

\* a search that admitted two matching results to the task queue
C18_Witness ==
  /\ cycle.search = "ok"
  /\ missedRounds = 0
  /\ \E i, j \in 1..Len(taskQueue) :
       /\ i < j
       /\ taskQueue[i].source = "search" /\ taskQueue[j].source = "search"
       /\ taskQueue[i].video # taskQueue[j].video

\* C19: a cycle whose discovery call fails (the platform API rejects and
\* getRecommendedVideos returns the [] of its catch, or getRecommendedVideos
\* rejects) is skipped: nothing is admitted, missedRounds keeps its value,
\* Active Search does not run, and the loop goes to the normal interval sleep,
\* not to the 60 s backoff.
C19_FailedDiscoverySkipsCycle ==
  [][fpc = "fetching" /\ fpc' # "fetching" /\ (cycle'.apiFailed \/ cycle'.failed) =>
       /\ UNCHANGED <<videoQueue, taskQueue, simQueue, lastStart>>
       /\ missedRounds' = missedRounds
       /\ cycle'.search = "none"
       /\ fpc' = EndOfCycle]_vars

\* C20: when a run ends in failure (playVideo rejects in executeTask or in
\* playTargetVideo, the simulator returns 0 to SimulatedPlaybackManager) a
\* record is appended to the history if and only if the run took more than
\* 1000 ms.
C20_FailedRunRecordedIffLong ==
  [][\A outcome \in PlayOutcomes :
       /\ ~outcome.ok
       /\ \/ \E p \in CpPlayers : WorkerPlayDone(p, outcome)
          \/ PlayDone(outcome)
          \/ SearchPlayDone(outcome)
          \/ \E k \in 1..Len(inFlight) : SimWorkerDone(k, outcome)
       => (Len(historyFile') = Len(historyFile) + 1
             <=> outcome.elapsed > MinRecordedFailureMs)]_vars

\* C21: every admitted task is executed at most once.  A PlayTask is returned
\* by getNextTask at most once and is set to playing at most once, a failed
\* task stays failed, and a step appends at most one record for each run that
\* ends in it; an entry of the SimulatedPlaybackManager queue starts one run
\* when it is shifted and a run appends one record when it ends.
C21_AtMostOnce ==
  /\ [](\A i \in 1..Len(taskQueue) :
          /\ taskQueue[i].claims <= 1
          /\ Cardinality({k \in 1..Len(taskQueue[i].trail) :
                            taskQueue[i].trail[k] = "playing"}) <= 1)
  /\ [][/\ \A i \in 1..Len(taskQueue) :
            taskQueue[i].status = "failed" => taskQueue'[i].status = "failed"
        /\ Mode = "concurrent" =>
             Len(historyFile') - Len(historyFile) <=
               Cardinality({i \in 1..Len(taskQueue) :
                              /\ taskQueue[i].status = "playing"
                              /\ taskQueue'[i].status \in {"completed", "failed"}})
        /\ Mode = "simulated" =>
             /\ Len(inFlight') > Len(inFlight) =>
                  Len(inFlight') - Len(inFlight) = Len(simQueue) - Len(simQueue')
             /\ Len(historyFile') - Len(historyFile) =
                  IF Len(inFlight') < Len(inFlight) THEN 1 ELSE 0
        /\ Mode = "single" =>
             Len(historyFile') - Len(historyFile) <=
               IF curVideo # 0 /\ curVideo' = 0 THEN 1 ELSE 0]_vars

\* a task failed and was recorded; its worker is back at polling and has not
\* claimed it again
C21_Witness ==
  /\ cpRunning
  /\ \E i \in 1..Len(taskQueue), p \in CpPlayers :
       /\ taskQueue[i].status = "failed"
       /\ taskQueue[i].claims = 1
       /\ taskQueue[i].playerId = p
       /\ players[p].pc = "polling"
       /\ hasWatched(historyFile, taskQueue[i].video)

(***************************************************************************)
(* The worker pool of ConcurrentPlayer on its own: n pending tasks with    *)
(* distinct video ids, some of them recorded by an earlier session of the  *)
(* program (the history file outlives the process), no stop signal and no  *)
(* further admission.  The 1 s poll timer of an idle worker expires and    *)
(* an awaited playVideo settles: weak fairness on both.                    *)
(***************************************************************************)
PoolNext ==
  \/ \E p \in CpPlayers : WorkerWake(p)
  \/ \E p \in CpPlayers, outcome \in PlayOutcomes : WorkerPlayDone(p, outcome)

InitPool ==
  /\ config \in {c \in Configs : ~c.useSimulatedPlayback /\ c.concurrentPlayers > 1}
  /\ isRunning = TRUE
  /\ missedRounds = 0
  /\ videoQueue = <<>>
  /\ fpc = "sleeping"
  /\ curVideo = 0
  /\ cycle = Ended(NewCycle)
  /\ lastStart = [video |-> 0, recorded |-> FALSE, via |-> "none"]
  /\ \E source \in Sources :
       \E q \in {d \in UNION {[1..n -> Videos] : n \in 0..MaxTasks} :
                   \A i, j \in 1..Len(d) : i # j => d[i] # d[j]} :
         taskQueue = cpAddToQueue(<<>>, q, source)
  /\ players = [p \in 1..config.concurrentPlayers
                  |-> [pc |-> "polling", isActive |-> FALSE, currentTask |-> 0]]
  /\ cpRunning = TRUE
  /\ cpStop = [pc |-> "idle", waitTime |-> 0]
  /\ simQueue = <<>>
  /\ isProcessing = FALSE
  /\ activeWorkers = 0
  /\ simulators = 0
  /\ inFlight = <<>>
  /\ loops = [scheduled |-> 0, looping |-> 0, draining |-> 0]
  /\ \E w \in {d \in UNION {[1..n -> Videos] : n \in 0..MaxLines} :
                   \A i, j \in 1..Len(d) : i # j => d[i] # d[j]} :
       historyFile = [k \in 1..Len(w) |-> HistoryLine(w[k], "home", 0)]
  /\ now = 1
  /\ histOp = NoCall
  /\ playback = NoPlayback
  /\ matchRun = NoMatchRun
  /\ statsFile = NoStats
  /\ searchRun = NoSearchRun

SpecPool ==
  /\ InitPool
  /\ [][PoolNext]_vars
  /\ \A p \in 1..MaxPlayers :
       /\ WF_vars(p \in CpPlayers /\ WorkerWake(p))
       /\ WF_vars(p \in CpPlayers /\ \E outcome \in PlayOutcomes : WorkerPlayDone(p, outcome))

AllFinished == \A i \in 1..Len(taskQueue) : taskQueue[i].status \in {"completed", "failed"}
\* executeTask was entered for the task (it sets task.playerId)
Ran(i) == taskQueue[i].playerId # 0
\* the task's video was in the history before the pool started on the tasks
PriorWatched(i) ==
  \E k \in 1..Len(historyFile) :
    historyFile[k].id = taskQueue[i].video /\ historyFile[k].day < now
\* the records appended for the task's video since the pool started
NewRecordsOf(i) ==
  Cardinality({k \in 1..Len(historyFile) :
                 historyFile[k].id = taskQueue[i].video /\ historyFile[k].day = now})

C22_WorkerSurvivesFailure ==
  /\ [](\A p \in CpPlayers :
          /\ players[p].pc # "ended"
          /\ players[p].pc = "polling" =>
               ~players[p].isActive /\ players[p].currentTask = 0
          /\ players[p].pc = "playing" =>
               players[p].isActive /\ players[p].currentTask # 0)
  /\ [][\A p \in CpPlayers :
          players[p].pc = "playing"
            /\ taskQueue'[players[p].currentTask].status = "failed" =>
              /\ \A q \in CpPlayers \ {p} : players'[q] = players[q]
              /\ \/ /\ players'[p].pc = "polling"
                    /\ \A i \in 1..Len(taskQueue') : taskQueue'[i].status # "pending"
                 \/ /\ players'[p].pc = "playing"
                    /\ players'[p].currentTask > players[p].currentTask
                    /\ taskQueue'[players'[p].currentTask].playerId = p]_vars
  /\ (PendingTasks # {}) ~> (PendingTasks = {})

\* a worker's run failed and the same worker has claimed the next task
C22_Witness ==
  \E i, j \in 1..Len(taskQueue) :
    /\ i < j
    /\ taskQueue[i].status = "failed"
    /\ taskQueue[j].playerId = taskQueue[i].playerId
    /\ taskQueue[j].status = "playing"
    /\ players[taskQueue[j].playerId].currentTask = j

(***************************************************************************)
(* SimulatedPlaybackManager on its own, with room for one video more than  *)
(* it has workers: the feeder's addToQueue calls arrive at any time, the   *)
(* processing loop and the runs in flight go on as their timers expire and *)
(* their simulators return.  Nothing calls stop, so the loop never leaves  *)
(* its while for the wait that follows it.                                 *)
(***************************************************************************)
\* this.simulatedPlaybackManager.addToQueue(videos, source), called by the feeder
SimAdmit(videos, source) ==
  /\ Len(historyFile) + Len(simQueue) + Len(inFlight)
       + Len(newVideosOf(simQueue, historyFile, videos)) <= MaxSimWork
  /\ simQueue' = simAddToQueue(simQueue, historyFile, videos, source)
  /\ loops' = simSchedule(simQueue, historyFile, videos)
  /\ UNCHANGED <<config, feederVars, historyFile, libVars, lastStart, cpVars,
                 isProcessing, activeWorkers, simulators, inFlight>>

InitSimWorkers ==
  /\ \E c \in {d \in Configs : d.useSimulatedPlayback /\ d.maxQueueSize = 1
                                /\ d.maxVideosPerQueue = 1 /\ ~d.enableActiveSearch} :
       Constructed(c)
  /\ historyFile = <<>>
  /\ now = 0
  /\ histOp = NoCall
  /\ playback = NoPlayback
  /\ matchRun = NoMatchRun
  /\ statsFile = NoStats
  /\ searchRun = NoSearchRun

NextSimWorkers ==
  \/ \E videos \in UNION {[1..n -> Videos] : n \in 1..MaxFetch}, source \in Sources :
       SimAdmit(videos, source)
  \/ SimStart
  \/ SimLoopWake
  \/ \E k \in 1..Len(inFlight), outcome \in PlayOutcomes : SimWorkerDone(k, outcome)

SpecSimWorkers == InitSimWorkers /\ [][NextSimWorkers]_vars

\* C23: a worker handle serves at most one run at a time: no two players hold
\* the same task and no task is held by two players, and no two runs of
\* SimulatedPlaybackManager that are in flight together have the same workerId
\* (and with it the same simulator instance).
C23_WorkerExclusive ==
  /\ \A p, q \in CpPlayers :
       p # q /\ players[p].currentTask # 0 =>
         players[p].currentTask # players[q].currentTask
  /\ \A i, j \in 1..Len(inFlight) :
       i # j => inFlight[i].workerId # inFlight[j].workerId

(***************************************************************************)
(* ConcurrentPlayer.stop poll by poll, against the workers of the pool.    *)
(* CpStopAllIdle and CpStopTimeout above take the whole waiting loop in    *)
(* one step; here every delay(StopPollMs) of the loop is a step of its     *)
(* own, between which the workers run.                                     *)
(***************************************************************************)
CpStopWakeNoWait ==
  /\ cpStop.pc = "waiting"
  /\ cpStop' = [pc |-> "cleaning", waitTime |-> cpStop.waitTime + StopPollMs]
  /\ UNCHANGED <<config, feederVars, historyFile, libVars, lastStart, taskQueue,
                 players, cpRunning, simVars>>

\* one delay(StopPollMs) of the waiting loop ends: waitTime += StopPollMs, and
\* the while condition is read again
CpStopWake ==
  /\ cpStop.pc = "waiting"
  /\ LET waitTime == cpStop.waitTime + StopPollMs
     IN cpStop' = [pc |-> IF waitTime < StopMaxWaitMs /\ SomeActive
                            THEN "waiting" ELSE "cleaning",
                   waitTime |-> waitTime]
  /\ UNCHANGED <<config, feederVars, historyFile, libVars, lastStart, taskQueue,
                 players, cpRunning, simVars>>

NextStop ==
  \/ \E p \in CpPlayers : WorkerWake(p)
  \/ \E p \in CpPlayers, outcome \in PlayOutcomes : WorkerPlayDone(p, outcome)
  \/ Stop
  \/ CpStopWake
  \/ CpStopCleanup

\* the timers of stop fire, and its clean-up returns
SpecStop ==
  InitPool /\ [][NextStop]_vars /\ WF_vars(CpStopWake) /\ WF_vars(CpStopCleanup)

\* C28: ConcurrentPlayer.stop reaches its clean-up while a player is still
\* executing a task only after StopMaxWaitMs of waiting; it never waits
\* longer; a poll that finds every player idle goes on to the clean-up; and
\* every stop completes.
C28_StopWaitsBounded ==
  /\ [](/\ (cpStop.pc \in {"cleaning", "stopped"} /\ SomeActive)
             => cpStop.waitTime >= StopMaxWaitMs
        /\ cpStop.waitTime <= StopMaxWaitMs
        /\ cpStop.pc = "waiting" => cpStop.waitTime < StopMaxWaitMs)
  /\ [][(cpStop.pc = "waiting" /\ cpStop' # cpStop) =>
          /\ cpStop'.waitTime = cpStop.waitTime + StopPollMs
          /\ ~SomeActive => cpStop'.pc = "cleaning"
          /\ cpStop'.pc = "cleaning" =>
                (~SomeActive \/ cpStop'.waitTime >= StopMaxWaitMs)]_vars
  /\ (cpStop.pc \in {"waiting", "cleaning"}) ~> (cpStop.pc = "stopped")

\* a stop that found a player active and went on to the clean-up at the poll
\* after the player's run ended, before the bound
C28_Witness ==
  /\ cpStop.pc = "stopped"
  /\ cpStop.waitTime = 2 * StopPollMs
  /\ ~SomeActive
  /\ \E i \in 1..Len(taskQueue) : taskQueue[i].status \in {"completed", "failed"}

(***************************************************************************)
(* The keyword choice of Active Search on its own: selectSearchKeyword as  *)
(* performActiveSearch calls it, once per search, whatever the search      *)
(* then returns.                                                           *)
(***************************************************************************)
MaxSearchKeywords == 3
MaxSearches == 5
SearchKeywordLists == UNION {[1..n -> KeywordPool] : n \in 0..MaxSearchKeywords}
SearchStrategies == {"random", "sequential", "weighted", "other"}

\* keywords[Math.floor(Math.random() * keywords.length)]
randomKeyword(keywords, r) == keywords[(r * Len(keywords)) \div RandomSteps + 1]

selectSearchKeywordStuck(run, r) ==
  [keyword |-> IF run.keywords = <<>> THEN <<>> ELSE run.keywords[1],
   keywordIndex |-> run.keywordIndex]

\* selectSearchKeyword: the keyword chosen (<<>> for null) and keywordIndex
\* after the call
selectSearchKeyword(run, r) ==
  IF Len(run.keywords) = 0
  THEN [keyword |-> <<>>, keywordIndex |-> run.keywordIndex]
  ELSE CASE run.strategy \in {"random", "weighted"} ->
              [keyword |-> randomKeyword(run.keywords, r),
               keywordIndex |-> run.keywordIndex]
         [] run.strategy = "sequential" ->
              [keyword |-> run.keywords[(run.keywordIndex % Len(run.keywords)) + 1],
               keywordIndex |-> run.keywordIndex + 1]
         [] OTHER ->
              [keyword |-> run.keywords[1], keywordIndex |-> run.keywordIndex]

\* performActiveSearch on a platform that can search: the keyword is selected,
\* and the search then finds a target (found) or nothing, or throws
PerformActiveSearch(r, found) ==
  /\ Len(searchRun.used) < MaxSearches
  /\ LET sel == selectSearchKeyword(searchRun, r)
     IN searchRun' = [searchRun EXCEPT
          !.keywordIndex = sel.keywordIndex,
          !.used = IF sel.keyword = <<>> THEN @
                   ELSE Append(@, [keyword |-> sel.keyword, found |-> found])]
  /\ UNCHANGED <<feedVars, historyFile, now, histOp, playback, matchRun, statsFile>>

InitSearch ==
  /\ Standalone
  /\ historyFile = <<>>
  /\ now = 0
  /\ histOp = NoCall
  /\ playback = NoPlayback
  /\ matchRun = NoMatchRun
  /\ statsFile = NoStats
  /\ \E keywords \in SearchKeywordLists, strategy \in SearchStrategies :
       searchRun = [NoSearchRun EXCEPT !.keywords = keywords, !.strategy = strategy]

NextSearch == \E r \in Randoms, found \in BOOLEAN : PerformActiveSearch(r, found)

SpecSearch == InitSearch /\ [][NextSearch]_vars

\* C29: under the 'sequential' strategy the k-th Active Search that selects a
\* keyword (k = 0, 1, 2, ...) uses keywords[k mod n], whatever the earlier
\* searches found, so any n consecutive searches use every entry of the
\* configured keyword list exactly once.
C29_RoundRobin ==
  searchRun.strategy = "sequential" =>
    LET keywords == searchRun.keywords
        used == searchRun.used
        n == Len(keywords)
    IN /\ searchRun.keywordIndex = Len(used)
       /\ \A k \in 0..(Len(used) - 1) : used[k + 1].keyword = keywords[(k % n) + 1]
       /\ \A first \in 1..(Len(used) - n + 1) :
            \A j \in 1..n :
              Cardinality({i \in first..(first + n - 1) :
                             used[i].keyword = keywords[j]})
                = Cardinality({i \in 1..n : keywords[i] = keywords[j]})

\* five searches over three distinct keywords, the first two without success
C29_Witness ==
  /\ searchRun.strategy = "sequential"
  /\ Len(searchRun.keywords) = MaxSearchKeywords
  /\ \A i, j \in 1..Len(searchRun.keywords) :
       i # j => searchRun.keywords[i] # searchRun.keywords[j]
  /\ Len(searchRun.used) = MaxSearches
  /\ ~searchRun.used[1].found
  /\ ~searchRun.used[2].found
  /\ searchRun.used[3].found
====
